---- MODULE Spec2Model ----
(***************************************************************************)
(* Model of src/main.py: fetch_url (bounded retry with backoff),           *)
(* safe_update (bounded retry of a sheet update) and run_script (sheet     *)
(* setup, date range, listing fetch, one pagination walk per index target, *)
(* row extraction, next-page resolution, politeness delay, Master append,  *)
(* snapshot tab).                                                          *)
(*                                                                         *)
(* Five specifications share the definitions that model the code:          *)
(*   Spec      the whole crawl, step by step, pages served by the site     *)
(*             drawn when the loop body reads them;                        *)
(*   SpecPage  one execution of the loop body (lines 159-236) on every     *)
(*             page of a bounded family, the page kept in the state so     *)
(*             that the result can be compared with the input;             *)
(*   SpecURL   extract_page_num and build_next_from_current (lines         *)
(*             131-141) on every URL of a bounded family;                  *)
(*   SpecDates date parsing, the listing fetch and the listing filter      *)
(*             (lines 67-125) on every pair of date strings and every      *)
(*             listing of bounded families;                                *)
(*   SpecRun   one whole run of run_script (lines 49-259) on small         *)
(*             inputs: sheet setup, dates, crawl, Master append and        *)
(*             snapshot tab, with another invocation appending to Master.  *)
(***************************************************************************)
EXTENDS Integers, Sequences, FiniteSets, TLC

VARIABLES
    pc,             \* position in run_script / fetch_url
    attempt,        \* fetch_url: loop variable `attempt`
    response,       \* value fetch_url returned to run_script ("ok" / "None")
    dates_list,     \* run_script: dates_list (labels; the URL is a function of the label)
    idx,            \* position of the for loop of line 143 in dates_list
    current_url,    \* run_script: current_url
    next_url,       \* run_script: next_url
    visited,        \* run_script: visited
    page_num,       \* run_script: page_num
    all_rows,       \* run_script: all_rows
    page,           \* SpecPage: the page the loop body is applied to
    tries,          \* history: requests.get calls made by the current fetch_url call
    delays,         \* history: time.sleep arguments of the current fetch_url call
    calls,          \* history: fetch_url calls issued for index pages
    polite,         \* history: a politeness sleep ran since the last fetch_url call
    gap_ok,         \* history: every fetch_url call but the first began with polite
    walk_log,       \* history: URLs fetched in the current walk, in order
    started,        \* history: targets (positions) whose first page fetch was issued
    failed,         \* history: targets whose walk ended by fetch failure
    rows_at_fail,   \* history: all_rows when the last fetch failure was handled
    offered,        \* history: URLs the pages of the current walk linked to
    fetched,        \* history: requests.get was called in this run
    next_num,       \* build_next_from_current: next_num
    current_n,      \* extract_page_num(current_url), as in lines 204 and 225
    built_n,        \* history: extract_page_num of the URL last built
    environ,        \* os.environ: the names that are set
    start_date_raw, \* run_script: start_date_raw (cell H1)
    end_date_raw,   \* run_script: end_date_raw (cell I1)
    start_date_obj, \* run_script: start_date_obj
    end_date_obj,   \* run_script: end_date_obj
    listing,        \* the rows of the listing page, once it was parsed
    master,         \* the worksheet "Master" of the spreadsheet
    snapshot,       \* the worksheet titled new_tab_name of the spreadsheet
    start_row,      \* run_script: start_row
    other_appended, \* another invocation of /run-script appended to Master
    wrote           \* history: the sheet updates of this run that were applied

vars == <<pc, attempt, response, dates_list, idx, current_url, next_url, visited,
          page_num, all_rows, page, tries, delays, calls, polite, gap_ok,
          walk_log, started, failed, rows_at_fail, offered, fetched,
          next_num, current_n, built_n, environ, start_date_raw, end_date_raw,
          start_date_obj, end_date_obj, listing, master, snapshot, start_row,
          other_appended, wrote>>

sheet_vars == <<master, snapshot, start_row, other_appended, wrote>>

\* what the fetches and the walks of the crawl neither read nor write
other_vars == <<next_num, current_n, built_n, environ, start_date_raw,
                end_date_raw, start_date_obj, end_date_obj, listing, sheet_vars>>

----------------------------------------------------------------------------
(* Bounds of the model *)

\* longest dates_list the listing page yields
MaxTargets == 2
\* largest page number a link of a served page carries
MaxPage == 3
\* most pagination links (ul.tm-pagination a) on a served page
MaxLinks == 2
\* index page fetches issued in one run
MaxFetches == 3
\* page segments of one URL after its first
MaxSegs == 2

(* Program constants *)

\* fetch_url(url, headers, retries=3, ...)
Retries == 3
\* time.sleep(2 ** attempt)
BackoffBase == 2
\* PAGE_SIZE_HINT = 25
PAGE_SIZE_HINT == 25
\* keep_indices = [0, 1, 5, 8, 12, 14]
keep_indices == <<0, 1, 5, 8, 12, 14>>
\* a row with all required columns: the highest projected column, 0-based 14
FullRowCells == 15
\* safe_update: for attempt in range(3)
SheetRetries == 3

----------------------------------------------------------------------------
(* URLs.  A URL is the index it belongs to (base), its first page segment *)
(* (seg, num: none, /page/N or /seite/N) and the page segments that       *)
(* follow it in the string (rest).  Two URLs are the same string iff the  *)
(* records are equal.                                                     *)

None == [base |-> 0, seg |-> "None", num |-> 0, rest |-> <<>>]
NoHref == [base |-> 0, seg |-> "nohref", num |-> 0, rest |-> <<>>]
Absent == [base |-> 0, seg |-> "absent", num |-> 0, rest |-> <<>>]

\* date_url of lines 116-120 for the label d
DateURL(d) == [base |-> d, seg |-> "none", num |-> 0, rest |-> <<>>]

NumberedURLs(b, segs) == [base : {b}, seg : segs, num : 1..MaxPage, rest : {<<>>}]

SiteURLs(b, segs) == {DateURL(b)} \cup NumberedURLs(b, segs)

\* re.search(r'/(?:page|seite)/(\d+)', url): the leftmost match
HasPageSeg(u) == u.seg \in {"page", "seite"}

extract_page_num(url) == IF HasPageSeg(url) THEN url.num ELSE 1

\* appends /page/N after the segments the URL has
build_next_from_current_Appends(url, n) ==
    IF HasPageSeg(url)
    THEN [url EXCEPT !.rest = Append(url.rest, [seg |-> "page", num |-> n])]
    ELSE [base |-> url.base, seg |-> "page", num |-> n, rest |-> <<>>]

\* re.sub rewrites every /page/N and /seite/N of the URL to /page/next_num;
\* a URL without one gets /page/next_num at the end of its path
build_next_from_current(url, n) ==
    IF HasPageSeg(url)
    THEN [base |-> url.base, seg |-> "page", num |-> n,
          rest |-> [k \in 1..Len(url.rest) |-> [seg |-> "page", num |-> n]]]
    ELSE [base |-> url.base, seg |-> "page", num |-> n, rest |-> <<>>]

\* urllib.parse.urljoin('https://www.transfermarkt.com', href): hrefs are
\* site paths, the joined URL is that path on the site origin
urljoin(href) ==
    [base |-> href.base, seg |-> href.seg, num |-> href.num, rest |-> href.rest]

----------------------------------------------------------------------------
(* Pages served by the site.  rows: the cell count of each row element    *)
(* (tr.odd / tr.even) in document order; relNext: the first element that  *)
(* matches a[rel="next"], link[rel="next"]; right: the first right-arrow  *)
(* anchor of ul.tm-pagination; links: the href of every anchor with an    *)
(* href in ul.tm-pagination, in document order.  An element is Absent,    *)
(* has no href (NoHref), or carries an href.                              *)

Page(rows, rel, right, links) ==
    [rows |-> rows, relNext |-> rel, right |-> right, links |-> links]

\* Spec keeps no page in the state
NoPage == Page(<<>>, Absent, Absent, <<>>)

SeqsUpTo(S, n) == UNION {[1..k -> S] : k \in 0..n}

Uniform(n, w) == [k \in 1..n |-> w]

\* row counts: none, one full row, and just below and at the full-page
\* threshold (rows of one cell)
ChainShapes ==
    {<<>>, <<FullRowCells>>, Uniform(PAGE_SIZE_HINT - 1, 1), Uniform(PAGE_SIZE_HINT, 1)}

\* short pages whose rows have too few, exactly enough and more cells
WidthShapes ==
    {<<w>> : w \in {0, 1, FullRowCells - 1, FullRowCells, FullRowCells + 1}}
        \cup {<<0, FullRowCells>>, <<FullRowCells, 0, 2>>}

Elements(b, segs) == {Absent, NoHref} \cup SiteURLs(b, segs)

\* pages of index b: every rel=next and right-arrow element with at most one
\* pagination link; every sequence of pagination links with rel=next and
\* right-arrow elements that carry no href; pages without markup
PagesOf(b) ==
    [rows : ChainShapes,
     relNext : Elements(b, {"page"}),
     right : Elements(b, {"page"}),
     links : SeqsUpTo(SiteURLs(b, {"page", "seite"}), 1)]
        \cup
    [rows : ChainShapes,
     relNext : {Absent, NoHref},
     right : {Absent, NoHref},
     links : SeqsUpTo(SiteURLs(b, {"page", "seite"}), MaxLinks)]
        \cup {Page(r, Absent, Absent, <<>>) : r \in WidthShapes}

\* pages of the crawl: one kind of pagination markup per page
\* (a full page of rows without cells: it counts as full and emits nothing)
CrawlShapes == {<<>>, <<1, 0, FullRowCells>>, Uniform(PAGE_SIZE_HINT, 0)}

CrawlPages(b) ==
    {Page(r, e, Absent, <<>>) : r \in CrawlShapes, e \in Elements(b, {"page"})}
        \cup {Page(r, Absent, e, <<>>) : r \in CrawlShapes, e \in Elements(b, {"page"})}
        \cup {Page(r, Absent, Absent, <<h>>) : r \in CrawlShapes, h \in SiteURLs(b, {"page"})}

----------------------------------------------------------------------------
(* Row extraction, lines 169-186 *)

InKeep(i) == \E k \in 1..Len(keep_indices) : keep_indices[k] = i

\* the values of idx, in `for idx, col in enumerate(cols, start=1)`, that
\* pass `if idx in keep_indices`, for a row of w cells
KeptColumns(w) == SelectSeq([c \in 1..w |-> c], InKeep)

\* the content of cell c (1-based) of row r of the pn-th page of target t
Cell(t, pn, r, c) == <<t, pn, r, c>>

\* data, after the inner loop, for row r (w cells)
RowData(t, pn, r, w) ==
    LET kept == KeptColumns(w)
    IN  [i \in 1..Len(kept) |-> Cell(t, pn, r, kept[i])]

NonEmpty(d) == d # <<>>

\* the rows of a page appended last row first
NewRows_Reversed(label, t, pn, rows) ==
    LET data == [r \in 1..Len(rows) |-> RowData(t, pn, Len(rows) + 1 - r, rows[Len(rows) + 1 - r])]
        kept == SelectSeq(data, NonEmpty)
    IN  [i \in 1..Len(kept) |-> <<label>> \o kept[i]]

\* the rows of a page with the rows without a retained cell kept
NewRows_KeepsEmpty(label, t, pn, rows) ==
    LET data == [r \in 1..Len(rows) |-> RowData(t, pn, r, rows[r])]
    IN  [i \in 1..Len(data) |-> <<label>> \o data[i]]

\* the rows the loop of line 169 appends to all_rows
NewRows(label, t, pn, rows) ==
    LET data == [r \in 1..Len(rows) |-> RowData(t, pn, r, rows[r])]
        kept == SelectSeq(data, NonEmpty)
    IN  [i \in 1..Len(kept) |-> <<label>> \o kept[i]]

----------------------------------------------------------------------------
(* Next-page resolution, lines 188-226 *)

HasHref(e) == e # Absent /\ e # NoHref

\* 1) rel="next"
RelNextURL(p) == IF HasHref(p.relNext) THEN urljoin(p.relNext) ELSE None

\* 2) right-arrow anchor
RightURL(p) == IF HasHref(p.right) THEN urljoin(p.right) ELSE None

\* nums of lines 205-210: the hrefs with a page number
Nums(p) == SelectSeq(p.links, HasPageSeg)

\* 3a) the first numeric link with n == current_n + 1
ExactNextURL(cur, p) ==
    LET nums == Nums(p)
        hits == {k \in 1..Len(nums) : nums[k].num = extract_page_num(cur) + 1}
    IN  IF hits = {} THEN None
        ELSE urljoin(nums[CHOOSE k \in hits : \A j \in hits : k <= j])

\* 3b) a higher page number is linked: synthesize current_n + 1
ExtrapolatedURL(cur, p) ==
    LET nums == Nums(p)
    IN  IF nums # <<>> /\ \E k \in 1..Len(nums) : nums[k].num > extract_page_num(cur)
        THEN build_next_from_current(cur, extract_page_num(cur) + 1)
        ELSE None

\* 4) the page looks full
HeuristicURL(cur, p) ==
    IF Len(p.rows) >= PAGE_SIZE_HINT
    THEN build_next_from_current(cur, extract_page_num(cur) + 1)
    ELSE None

OrElse(a, b) == IF a # None THEN a ELSE b

\* the chain with the right-arrow anchor tried before rel="next"
ResolveNext_RightFirst(cur, p) ==
    OrElse(RightURL(p),
    OrElse(RelNextURL(p),
    OrElse(ExactNextURL(cur, p),
    OrElse(ExtrapolatedURL(cur, p),
           HeuristicURL(cur, p)))))

\* next_url at line 228
ResolveNext(cur, p) ==
    OrElse(RelNextURL(p),
    OrElse(RightURL(p),
    OrElse(ExactNextURL(cur, p),
    OrElse(ExtrapolatedURL(cur, p),
           HeuristicURL(cur, p)))))

\* the URLs the page links to
Hrefs(p) ==
    {urljoin(e) : e \in {x \in {p.relNext, p.right} : HasHref(x)}}
        \cup {urljoin(p.links[k]) : k \in 1..Len(p.links)}

\* the guard without the visited test
GuardNext_NoVisitedTest(nxt, vis) == nxt

\* lines 229-233
GuardNext(nxt, vis) == IF nxt # None /\ nxt \notin vis THEN nxt ELSE None

----------------------------------------------------------------------------
(* fetch_url, lines 17-32 *)

\* the caller has read the returned value: the call's locals are gone
Returned ==
    /\ attempt' = 0
    /\ tries' = 0
    /\ delays' = <<>>

\* the call: the loop starts at attempt 0
CallFetch(site) ==
    /\ pc' = site
    /\ attempt' = 0
    /\ tries' = 0
    /\ delays' = <<>>

\* lines 21-25: requests.get answers and raise_for_status passes
AttemptOk ==
    /\ pc \in {"fetch_listing", "fetch_page"}
    /\ attempt < Retries
    /\ tries' = tries + 1
    /\ response' = "ok"
    /\ pc' = IF pc = "fetch_listing" THEN "listing_got" ELSE "page_got"
    /\ UNCHANGED <<attempt, delays>>

\* gives up one attempt early
AttemptFail_GivesUpEarly ==
    /\ pc \in {"fetch_listing", "fetch_page"}
    /\ attempt < Retries
    /\ tries' = tries + 1
    /\ IF attempt < Retries - 2
       THEN /\ delays' = Append(delays, BackoffBase ^ attempt)
            /\ attempt' = attempt + 1
            /\ UNCHANGED <<pc, response>>
       ELSE /\ response' = "None"
            /\ pc' = IF pc = "fetch_listing" THEN "listing_got" ELSE "page_got"
            /\ UNCHANGED <<attempt, delays>>

\* sleeps after the final failed attempt too
AttemptFail_SleepsAtEnd ==
    /\ pc \in {"fetch_listing", "fetch_page"}
    /\ attempt < Retries
    /\ tries' = tries + 1
    /\ delays' = Append(delays, BackoffBase ^ attempt)
    /\ IF attempt < Retries - 1
       THEN /\ attempt' = attempt + 1
            /\ UNCHANGED <<pc, response>>
       ELSE /\ response' = "None"
            /\ pc' = IF pc = "fetch_listing" THEN "listing_got" ELSE "page_got"
            /\ UNCHANGED attempt

\* lines 26-32: the attempt raised; back off and go on, or give up
AttemptFail ==
    /\ pc \in {"fetch_listing", "fetch_page"}
    /\ attempt < Retries
    /\ tries' = tries + 1
    /\ IF attempt < Retries - 1
       THEN /\ delays' = Append(delays, BackoffBase ^ attempt)
            /\ attempt' = attempt + 1
            /\ UNCHANGED <<pc, response>>
       ELSE /\ response' = "None"
            /\ pc' = IF pc = "fetch_listing" THEN "listing_got" ELSE "page_got"
            /\ UNCHANGED <<attempt, delays>>

Attempt ==
    /\ \/ AttemptOk
       \/ AttemptFail
    /\ fetched' = TRUE
    /\ UNCHANGED other_vars
    /\ UNCHANGED <<dates_list, idx, current_url, next_url, visited, page_num,
                   all_rows, page, calls, polite, gap_ok, walk_log, started,
                   failed, rows_at_fail, offered>>

----------------------------------------------------------------------------
(* run_script, step 1: lines 99-125 *)

\* the dates_list the listing page yields after the filter of line 115:
\* the dates of the range that have transfers, newest first
DateLists == {[k \in 1..n |-> n + 1 - k] : n \in 0..MaxTargets}

\* line 100-101: return "Failed to fetch transfer dates", 500
ListingFailed ==
    /\ pc = "listing_got"
    /\ response = "None"
    /\ pc' = "failed500"
    /\ Returned
    /\ UNCHANGED <<response, dates_list, idx, current_url, next_url,
                   visited, page_num, all_rows, page, calls,
                   polite, gap_ok, walk_log, started, failed, rows_at_fail,
                   offered>>
    /\ UNCHANGED <<fetched, other_vars>>

\* lines 143-148: the for loop takes target t
StartWalk(t, dl) ==
    /\ idx' = t
    /\ visited' = {}
    /\ current_url' = DateURL(dl[t])
    /\ page_num' = 0
    /\ walk_log' = <<>>
    /\ offered' = {}
    /\ pc' = "walk"

\* the for loop of line 143 goes on to the next target, or is over
AdvanceFor ==
    IF idx < Len(dates_list)
    THEN StartWalk(idx + 1, dates_list)
    ELSE /\ pc' = "done"
         /\ UNCHANGED <<idx, visited, current_url, page_num, walk_log, offered>>

\* lines 102-148: parse the listing, raise on no target, enter the for loop
ListingParsed ==
    /\ pc = "listing_got"
    /\ response = "ok"
    /\ \E dl \in DateLists :
          /\ dates_list' = dl
          /\ IF dl = <<>>
             THEN /\ pc' = "raised"
                  /\ UNCHANGED <<idx, visited, current_url, page_num, walk_log,
                                 offered>>
             ELSE StartWalk(1, dl)
    /\ Returned
    /\ UNCHANGED <<response, next_url, all_rows, page,
                   calls, polite, gap_ok, started, failed, rows_at_fail>>
    /\ UNCHANGED <<fetched, other_vars>>

----------------------------------------------------------------------------
(* run_script, step 2: lines 150-236 *)

\* lines 150-155: the while condition holds; fetch current_url
LoopHead ==
    /\ pc = "walk"
    /\ current_url # None
    /\ current_url \notin visited
    /\ calls < MaxFetches
    /\ visited' = visited \cup {current_url}
    /\ page_num' = page_num + 1
    /\ CallFetch("fetch_page")
    /\ calls' = calls + 1
    /\ gap_ok' = (gap_ok /\ polite)
    /\ polite' = FALSE
    /\ walk_log' = Append(walk_log, current_url)
    /\ started' = started \cup {idx}
    /\ UNCHANGED <<response, dates_list, idx, current_url, next_url, all_rows,
                   page, failed, rows_at_fail, offered>>
    /\ UNCHANGED <<fetched, other_vars>>

\* line 150: the while condition fails; on to the next target
WhileExit ==
    /\ pc = "walk"
    /\ (current_url = None \/ current_url \in visited)
    /\ AdvanceFor
    /\ UNCHANGED <<attempt, response, dates_list, next_url, all_rows, page,
                   tries, delays, calls, polite, gap_ok, started, failed,
                   rows_at_fail>>
    /\ UNCHANGED <<fetched, other_vars>>

\* a fetch failure that ends the whole crawl
PageFailed_EndsCrawl ==
    /\ pc = "page_got"
    /\ response = "None"
    /\ failed' = failed \cup {idx}
    /\ rows_at_fail' = all_rows
    /\ pc' = "done"
    /\ Returned
    /\ UNCHANGED <<response, dates_list, next_url, all_rows, page,
                   calls, polite, gap_ok, started, idx, visited, current_url,
                   page_num, walk_log, offered>>
    /\ UNCHANGED <<fetched, other_vars>>

\* lines 156-158: fetch failure, break
PageFailed ==
    /\ pc = "page_got"
    /\ response = "None"
    /\ failed' = failed \cup {idx}
    /\ rows_at_fail' = all_rows
    /\ AdvanceFor
    /\ Returned
    /\ UNCHANGED <<response, dates_list, next_url, all_rows, page,
                   calls, polite, gap_ok, started>>
    /\ UNCHANGED <<fetched, other_vars>>

\* the loop body without the break of lines 163-165
LoopBody_NoBreak(p) ==
    /\ pc = "page_got"
    /\ response = "ok"
    /\ all_rows' = all_rows \o NewRows(dates_list[idx], idx, page_num, p.rows)
    /\ next_url' = ResolveNext(current_url, p)
    /\ current_url' = GuardNext(ResolveNext(current_url, p), visited)
    /\ polite' = TRUE
    /\ pc' = "walk"
    /\ offered' = offered \cup Hrefs(p)
    /\ Returned
    /\ UNCHANGED <<idx, visited, page_num, walk_log, response, dates_list, page,
                   calls, gap_ok, started, failed, rows_at_fail>>
    /\ UNCHANGED <<fetched, other_vars>>

\* lines 159-236 on the page p: no row, break; else extract the rows,
\* resolve the next URL, guard it, and sleep
LoopBody(p) ==
    /\ pc = "page_got"
    /\ response = "ok"
    /\ IF p.rows = <<>>
       THEN /\ AdvanceFor
            /\ UNCHANGED <<all_rows, next_url, polite>>
       ELSE /\ all_rows' = all_rows \o NewRows(dates_list[idx], idx, page_num, p.rows)
            /\ next_url' = ResolveNext(current_url, p)
            /\ current_url' = GuardNext(ResolveNext(current_url, p), visited)
            /\ polite' = TRUE
            /\ pc' = "walk"
            /\ offered' = offered \cup Hrefs(p)
            /\ UNCHANGED <<idx, visited, page_num, walk_log>>
    /\ Returned
    /\ UNCHANGED <<response, dates_list, page, calls,
                   gap_ok, started, failed, rows_at_fail>>
    /\ UNCHANGED <<fetched, other_vars>>

\* the site serves some page for the URL fetched
PageServed ==
    \E p \in CrawlPages(current_url.base) : LoopBody(p)

----------------------------------------------------------------------------
(* The crawl *)

\* lines 59-65 found a Master sheet that holds its header row; the
\* spreadsheet has no tab of this minute's name
SheetsOpen ==
    /\ master = [found |-> TRUE, rows |-> <<[by |-> "header", k |-> 0]>>]
    /\ snapshot = [found |-> FALSE, rows |-> <<>>]
    /\ start_row = 0
    /\ other_appended = FALSE
    /\ wrote = {}

\* lines 49-98 ran without raising, on one date given twice
SetupDone ==
    /\ environ = {"GOOGLE_CREDS_JSON", "SCRAPERAPI_KEY"}
    /\ start_date_raw = [form |-> "slash", a |-> 1, b |-> 1, c |-> 2024]
    /\ end_date_raw = start_date_raw
    /\ start_date_obj = [y |-> 2024, m |-> 1, d |-> 1]
    /\ end_date_obj = start_date_obj
    /\ listing = <<>>
    /\ SheetsOpen

\* no call of build_next_from_current is under study
NoRewrite ==
    /\ next_num = 0
    /\ current_n = 0
    /\ built_n = 0

\* line 99: the listing fetch is the first fetch of the run
Init ==
    /\ pc = "fetch_listing"
    /\ attempt = 0
    /\ response = "None"
    /\ dates_list = <<>>
    /\ idx = 0
    /\ current_url = None
    /\ next_url = None
    /\ visited = {}
    /\ page_num = 0
    /\ all_rows = <<>>
    /\ page = NoPage
    /\ tries = 0
    /\ delays = <<>>
    /\ calls = 0
    /\ polite = FALSE
    /\ gap_ok = TRUE
    /\ walk_log = <<>>
    /\ started = {}
    /\ failed = {}
    /\ rows_at_fail = <<>>
    /\ offered = {}
    /\ fetched = FALSE
    /\ NoRewrite
    /\ SetupDone

Next ==
    \/ Attempt
    \/ ListingFailed
    \/ ListingParsed
    \/ LoopHead
    \/ WhileExit
    \/ PageFailed
    \/ PageServed

Spec == Init /\ [][Next]_vars

----------------------------------------------------------------------------
(* One loop body: the state at line 159, after current_url was fetched on *)
(* the only target's walk, for every page of PagesOf                      *)

\* visited at line 159: current_url, alone or after the URL the rewrite of
\* lines 221 and 226 would give
VisitedAt(cur) ==
    {{cur}, {cur, build_next_from_current(cur, extract_page_num(cur) + 1)}}

InitPage ==
    /\ pc = "page_got"
    /\ attempt = 0
    /\ response = "ok"
    /\ dates_list = <<1>>
    /\ idx = 1
    /\ current_url \in SiteURLs(1, {"page", "seite"})
    /\ next_url = None
    /\ visited \in VisitedAt(current_url)
    /\ page_num = Cardinality(visited)
    /\ all_rows = <<>>
    /\ page \in PagesOf(1)
    /\ tries = 1
    /\ delays = <<>>
    /\ calls = page_num
    /\ polite = FALSE
    /\ gap_ok = FALSE
    /\ walk_log = <<current_url>>
    /\ started = {1}
    /\ failed = {}
    /\ rows_at_fail = <<>>
    /\ offered = {}
    /\ fetched = TRUE
    /\ NoRewrite
    /\ SetupDone

PageStep == LoopBody(page)

NextPage == PageStep

SpecPage == InitPage /\ [][NextPage]_vars

----------------------------------------------------------------------------
(* The page-number rewrite alone: extract_page_num and                    *)
(* build_next_from_current (lines 131-141) on every URL of a bounded       *)
(* family and every page number                                            *)

PageSegs == [seg : {"page", "seite"}, num : 1..MaxPage]

\* URLs without a page segment, and with one to 1 + MaxSegs of them
RewriteURLs ==
    {DateURL(1)} \cup
    [base : {1}, seg : {"page", "seite"}, num : 1..MaxPage,
     rest : SeqsUpTo(PageSegs, MaxSegs)]

InitURL ==
    /\ pc = "url"
    /\ attempt = 0
    /\ response = "None"
    /\ dates_list = <<>>
    /\ idx = 0
    /\ current_url \in RewriteURLs
    /\ next_url = None
    /\ visited = {}
    /\ page_num = 0
    /\ all_rows = <<>>
    /\ page = NoPage
    /\ tries = 0
    /\ delays = <<>>
    /\ calls = 0
    /\ polite = FALSE
    /\ gap_ok = TRUE
    /\ walk_log = <<>>
    /\ started = {}
    /\ failed = {}
    /\ rows_at_fail = <<>>
    /\ offered = {}
    /\ fetched = FALSE
    /\ next_num \in 1..(MaxPage + 1)
    /\ current_n = 0
    /\ built_n = 0
    /\ SetupDone

setup_vars == <<environ, start_date_raw, end_date_raw, start_date_obj,
                end_date_obj, listing>>

crawl_vars == <<attempt, response, dates_list, idx, visited, page_num, all_rows,
                page, tries, delays, calls, polite, gap_ok, walk_log, started,
                failed, rows_at_fail, offered, fetched>>

\* lines 204, 225: current_n = extract_page_num(current_url)
ExtractCurrent ==
    /\ pc = "url"
    /\ current_n' = extract_page_num(current_url)
    /\ pc' = "numbered"
    /\ UNCHANGED <<crawl_vars, current_url, next_url, next_num, built_n, setup_vars,
                   sheet_vars>>

\* lines 221, 226: next_url = build_next_from_current(current_url, next_num)
Rewrite ==
    /\ pc = "numbered"
    /\ next_url' = build_next_from_current(current_url, next_num)
    /\ pc' = "rewritten"
    /\ UNCHANGED <<crawl_vars, current_url, next_num, current_n, built_n, setup_vars,
                   sheet_vars>>

\* extract_page_num of the URL built
ExtractBuilt ==
    /\ pc = "rewritten"
    /\ built_n' = extract_page_num(next_url)
    /\ pc' = "read_back"
    /\ UNCHANGED <<crawl_vars, current_url, next_url, next_num, current_n, setup_vars,
                   sheet_vars>>

NextURL ==
    \/ ExtractCurrent
    \/ Rewrite
    \/ ExtractBuilt

SpecURL == InitURL /\ [][NextURL]_vars

----------------------------------------------------------------------------
(* Dates.  A date string is its punctuation (form) and its three numbers   *)
(* in the order they stand in the string: "01/31/2024" is slash 1 31 2024, *)
(* "2024-01-31" is dash 2024 1 31.  A date value is year, month, day.      *)

Years == {2024}

\* numbers that are a month, a day, or neither
FieldVals == {1, 2, 13, 31}

MonthVals == {1, 2, 13}

DayVals == {1, 31}

\* worksheet.acell(...).value of an empty cell
EmptyCell == [form |-> "empty", a |-> 0, b |-> 0, c |-> 0]

\* what the cells H1 and I1 may hold
RawDates ==
    [form : {"slash"}, a : FieldVals, b : DayVals, c : Years]
        \cup [form : {"dash"}, a : Years, b : FieldVals, c : DayVals]
        \cup {[form |-> "text", a |-> 0, b |-> 0, c |-> 0], EmptyCell}

NoDate == [y |-> 0, m |-> 0, d |-> 0]

Leap(y) == y % 4 = 0 /\ (y % 100 # 0 \/ y % 400 = 0)

DaysIn(m, y) ==
    IF m = 2 THEN (IF Leap(y) THEN 29 ELSE 28)
    ELSE IF m \in {4, 6, 9, 11} THEN 30
    ELSE 31

\* datetime.date(y, m, d) and strptime raise ValueError on any other triple
IsCalendar(y, m, d) ==
    /\ y \in 1..9999
    /\ m \in 1..12
    /\ d \in 1..DaysIn(m, y)

\* accepts year-month-day strings as well
Parses_AlsoISO(s) ==
    \/ s.form = "slash" /\ IsCalendar(s.c, s.a, s.b)
    \/ s.form = "dash" /\ IsCalendar(s.a, s.b, s.c)

\* datetime.datetime.strptime(s, '%m/%d/%Y') returns a value
Parses(s) == s.form = "slash" /\ IsCalendar(s.c, s.a, s.b)

\* the value strptime(s, '%m/%d/%Y') returns
strptime(s) == [y |-> s.c, m |-> s.a, d |-> s.b]

\* p <= q on datetime / date values
DateLE(p, q) ==
    \/ p.y < q.y
    \/ p.y = q.y /\ p.m < q.m
    \/ p.y = q.y /\ p.m = q.m /\ p.d <= q.d

\* lines 67-77: read H1 and I1, parse both, order them
ParseDates ==
    /\ pc = "parse_dates"
    /\ IF EmptyCell \in {start_date_raw, end_date_raw}
          /\ (start_date_raw = EmptyCell \/ Parses(start_date_raw))
       THEN /\ pc' = "raised_type_error"
            /\ UNCHANGED <<start_date_obj, end_date_obj>>
       ELSE IF ~(Parses(start_date_raw) /\ Parses(end_date_raw))
       THEN /\ pc' = "raised_date"
            /\ UNCHANGED <<start_date_obj, end_date_obj>>
       ELSE LET s == strptime(start_date_raw)
                e == strptime(end_date_raw)
            IN  /\ start_date_obj' = IF DateLE(s, e) THEN s ELSE e
                /\ end_date_obj' = IF DateLE(s, e) THEN e ELSE s
                /\ pc' = "check_key"
    /\ UNCHANGED <<crawl_vars, current_url, next_url, next_num, current_n, built_n,
                   environ, start_date_raw, end_date_raw, listing, sheet_vars>>

\* lines 80-99: the proxy key is required; then the listing is fetched
CheckKey ==
    /\ pc = "check_key"
    /\ IF "SCRAPERAPI_KEY" \in environ
       THEN CallFetch("fetch_listing")
       ELSE /\ pc' = "raised_no_key"
            /\ UNCHANGED <<attempt, tries, delays>>
    /\ UNCHANGED <<response, dates_list, idx, visited, page_num, all_rows, page,
                   calls, polite, gap_ok, walk_log, started, failed, rows_at_fail,
                   offered, fetched, current_url, next_url, next_num, current_n,
                   built_n, environ, start_date_raw, end_date_raw,
                   start_date_obj, end_date_obj, listing, sheet_vars>>

(* The listing page: what lines 105-112 read of each row of                *)
(* "table.items tbody tr": no td, a td without link, a link whose text    *)
(* does not match \d{2}\.\d{2}\.\d{4}$, or a text DD.MM.YYYY              *)

NoCell == [kind |-> "no_td", dd |-> 0, mm |-> 0, yyyy |-> 0]
NoLink == [kind |-> "no_link", dd |-> 0, mm |-> 0, yyyy |-> 0]
OtherText == [kind |-> "text", dd |-> 0, mm |-> 0, yyyy |-> 0]

DateTexts == [kind : {"date"}, dd : DayVals, mm : MonthVals, yyyy : Years]

ListingRows == {NoCell, NoLink, OtherText} \cup DateTexts

Listings == SeqsUpTo(ListingRows, MaxTargets)

\* line 112: re.match(r'\d{2}\.\d{2}\.\d{4}$', date_text)
MatchesPattern(row) == row.kind = "date"

\* line 114: date_obj (when datetime.date does not raise)
DateOf(row) == [y |-> row.yyyy, m |-> row.mm, d |-> row.dd]

\* the range without its bounds
InRange_Exclusive(d, lo, hi) ==
    /\ DateLE(lo, d) /\ lo # d
    /\ DateLE(d, hi) /\ hi # d

\* line 115: start_date_obj.date() <= date_obj <= end_date_obj.date()
InRange(d, lo, hi) == DateLE(lo, d) /\ DateLE(d, hi)

IsTarget(row) ==
    MatchesPattern(row) /\ InRange(DateOf(row), start_date_obj, end_date_obj)

\* line 111: date_text "DD.MM.YYYY", as the number DDMMYYYY of its digits
DateText(row) == row.dd * 1000000 + row.mm * 10000 + row.yyyy

\* lines 104-121: the date_text of every row that passes the tests
Targets(l) ==
    LET hits == SelectSeq(l, IsTarget)
    IN  [i \in 1..Len(hits) |-> DateText(hits[i])]

\* line 114 raises on some row: the text matches and is no calendar date
DateRaises(l) ==
    \E k \in 1..Len(l) :
        MatchesPattern(l[k]) /\ ~IsCalendar(l[k].yyyy, l[k].mm, l[k].dd)

\* goes on to steps 3 and 4 when no row of the listing is a target
ListingRead_NoRaise(l) ==
    /\ pc = "listing_got"
    /\ response = "ok"
    /\ listing' = l
    /\ IF DateRaises(l)
       THEN /\ pc' = "raised_value_error"
            /\ UNCHANGED <<dates_list, idx, visited, current_url, page_num,
                           walk_log, offered>>
       ELSE /\ dates_list' = Targets(l)
            /\ IF Targets(l) = <<>>
               THEN /\ pc' = "done"
                    /\ UNCHANGED <<idx, visited, current_url, page_num, walk_log,
                                   offered>>
               ELSE StartWalk(1, Targets(l))
    /\ Returned
    /\ UNCHANGED <<response, next_url, all_rows, page, calls, polite, gap_ok,
                   started, failed, rows_at_fail, fetched, next_num, current_n,
                   built_n, environ, start_date_raw, end_date_raw,
                   start_date_obj, end_date_obj, sheet_vars>>

\* lines 102-148 on the listing l: ValueError of datetime.date, or the
\* filtered dates_list; raise on no target, else enter the for loop
ListingRead(l) ==
    /\ pc = "listing_got"
    /\ response = "ok"
    /\ listing' = l
    /\ IF DateRaises(l)
       THEN /\ pc' = "raised_value_error"
            /\ UNCHANGED <<dates_list, idx, visited, current_url, page_num,
                           walk_log, offered>>
       ELSE /\ dates_list' = Targets(l)
            /\ IF Targets(l) = <<>>
               THEN /\ pc' = "raised"
                    /\ UNCHANGED <<idx, visited, current_url, page_num, walk_log,
                                   offered>>
               ELSE StartWalk(1, Targets(l))
    /\ Returned
    /\ UNCHANGED <<response, next_url, all_rows, page, calls, polite, gap_ok,
                   started, failed, rows_at_fail, fetched, next_num, current_n,
                   built_n, environ, start_date_raw, end_date_raw,
                   start_date_obj, end_date_obj, sheet_vars>>

ListingServed == \E l \in Listings : ListingRead(l)

\* the state at line 67: sheets open, nothing fetched
InitDates ==
    /\ pc = "parse_dates"
    /\ attempt = 0
    /\ response = "None"
    /\ dates_list = <<>>
    /\ idx = 0
    /\ current_url = None
    /\ next_url = None
    /\ visited = {}
    /\ page_num = 0
    /\ all_rows = <<>>
    /\ page = NoPage
    /\ tries = 0
    /\ delays = <<>>
    /\ calls = 0
    /\ polite = FALSE
    /\ gap_ok = TRUE
    /\ walk_log = <<>>
    /\ started = {}
    /\ failed = {}
    /\ rows_at_fail = <<>>
    /\ offered = {}
    /\ fetched = FALSE
    /\ NoRewrite
    /\ environ = {"GOOGLE_CREDS_JSON", "SCRAPERAPI_KEY"}
    /\ start_date_raw \in RawDates
    /\ end_date_raw \in RawDates
    /\ start_date_obj = NoDate
    /\ end_date_obj = NoDate
    /\ listing = <<>>
    /\ SheetsOpen

NextDates ==
    \/ ParseDates
    \/ CheckKey
    \/ Attempt
    \/ ListingFailed
    \/ ListingServed

SpecDates == InitDates /\ [][NextDates]_vars

----------------------------------------------------------------------------
(* The spreadsheet.  A worksheet is found or not and holds rows; a row is  *)
(* what wrote it: the header, row k of this run's all_rows, the           *)
(* placeholder, a row of another invocation, a row that was there before, *)
(* or nothing (a blank row above a written one).                           *)

Header == [by |-> "header", k |-> 0]
Placeholder == [by |-> "placeholder", k |-> 0]
OldRow == [by |-> "old", k |-> 0]
OtherRow == [by |-> "other", k |-> 0]
BlankRow == [by |-> "blank", k |-> 0]

\* all_rows as sheet rows
SheetRows(rows) == [k \in 1..Len(rows) |-> [by |-> "run", k |-> k]]

NoSheet == [found |-> FALSE, rows |-> <<>>]

Sheet(rows) == [found |-> TRUE, rows |-> rows]

\* ws.update(values=values, range_name='A<at>'): the rows from row `at` on
\* are replaced, the sheet grows as needed
Overwrite(rows, at, values) ==
    LET last == IF Len(rows) > at + Len(values) - 1 THEN Len(rows)
                ELSE at + Len(values) - 1
    IN  [i \in 1..last |->
            IF i >= at /\ i < at + Len(values) THEN values[i - at + 1]
            ELSE IF i <= Len(rows) THEN rows[i]
            ELSE BlankRow]

\* safe_update, lines 34-44, when ws.update raises `fails` times in a row:
\* the update is applied by the first attempt that does not raise, and is
\* dropped when all SheetRetries attempts raise
safe_update(ws, values, at, fails) ==
    IF fails < SheetRetries
    THEN [ws EXCEPT !.rows = Overwrite(ws.rows, at, values)]
    ELSE ws

\* the value safe_update returns
Updated(fails) == fails < SheetRetries

Fails == 0..SheetRetries

most_vars == <<crawl_vars, current_url, next_url, next_num, current_n, built_n,
               setup_vars>>

\* lines 50-65: credentials, open the spreadsheet, find or create Master
Setup ==
    /\ pc = "start"
    /\ IF "GOOGLE_CREDS_JSON" \notin environ
       THEN /\ pc' = "raised_no_creds"
            /\ UNCHANGED <<master, wrote>>
       ELSE /\ pc' = "parse_dates"
            /\ IF master.found
               THEN UNCHANGED <<master, wrote>>
               ELSE \E fails \in Fails :
                       /\ master' = safe_update(Sheet(<<>>), <<Header>>, 1, fails)
                       /\ wrote' = IF Updated(fails) THEN wrote \cup {"master_header"}
                                   ELSE wrote
    /\ UNCHANGED <<most_vars, snapshot, start_row, other_appended>>

\* lines 239-241: nothing to append, or read Master and compute start_row
ReadMaster ==
    /\ pc = "done"
    /\ IF all_rows # <<>>
       THEN /\ start_row' = Len(master.rows) + 1
            /\ pc' = "append"
       ELSE /\ pc' = "new_tab"
            /\ UNCHANGED start_row
    /\ UNCHANGED <<most_vars, master, snapshot, other_appended, wrote>>

\* line 243: safe_update(master_sheet, all_rows, f'A{start_row}')
WriteMaster ==
    /\ pc = "append"
    /\ \E fails \in Fails :
          /\ master' = safe_update(master, SheetRows(all_rows), start_row, fails)
          /\ wrote' = IF Updated(fails) THEN wrote \cup {"master_rows"} ELSE wrote
    /\ pc' = "new_tab"
    /\ UNCHANGED <<most_vars, snapshot, start_row, other_appended>>

\* lines 247-250: add the worksheet named for the current minute; the
\* spreadsheet refuses a title it already has and add_worksheet raises
AddTab ==
    /\ pc = "new_tab"
    /\ IF snapshot.found
       THEN /\ pc' = "raised_api_error"
            /\ UNCHANGED snapshot
       ELSE /\ pc' = "tab_header"
            /\ snapshot' = Sheet(<<>>)
    /\ UNCHANGED <<most_vars, master, start_row, other_appended, wrote>>

\* line 251: the header row of the new tab
TabHeader ==
    /\ pc = "tab_header"
    /\ \E fails \in Fails :
          /\ snapshot' = safe_update(snapshot, <<Header>>, 1, fails)
          /\ wrote' = IF Updated(fails) THEN wrote \cup {"tab_header"} ELSE wrote
    /\ pc' = "tab_rows"
    /\ UNCHANGED <<most_vars, master, start_row, other_appended>>

\* lines 252-259: the rows, or the placeholder row, from row 2 on; return
TabRows ==
    /\ pc = "tab_rows"
    /\ \E fails \in Fails :
          /\ snapshot' = safe_update(snapshot,
                                    IF all_rows # <<>> THEN SheetRows(all_rows)
                                    ELSE <<Placeholder>>,
                                    2, fails)
          /\ wrote' = IF Updated(fails) THEN wrote \cup {"tab_rows"} ELSE wrote
    /\ pc' = "returned200"
    /\ UNCHANGED <<most_vars, master, start_row, other_appended>>

\* lines 239-243 of another invocation of /run-script, which has one row:
\* it reads Master and appends, while this one is at step 3
OtherAppend ==
    /\ pc \in {"done", "append"}
    /\ ~other_appended
    /\ other_appended' = TRUE
    /\ master' = safe_update(master, <<OtherRow>>, Len(master.rows) + 1, 0)
    /\ UNCHANGED <<pc, most_vars, snapshot, start_row, wrote>>

----------------------------------------------------------------------------
(* One whole run of run_script, lines 49-259, on small inputs, with        *)
(* another invocation appending to Master in between                       *)

RunDates ==
    {[form |-> "slash", a |-> 1, b |-> 1, c |-> 2024],
     [form |-> "dash", a |-> 2024, b |-> 1, c |-> 1]}

\* a link dated in the range, one dated after it, one that is no date
RunListings ==
    SeqsUpTo({[kind |-> "date", dd |-> 1, mm |-> 1, yyyy |-> 2024],
              [kind |-> "date", dd |-> 1, mm |-> 2, yyyy |-> 2024],
              [kind |-> "date", dd |-> 31, mm |-> 2, yyyy |-> 2024]}, MaxTargets)

\* no row; a row without cells; a row; a row and a rel=next link
RunPages(b) ==
    {Page(<<>>, Absent, Absent, <<>>),
     Page(<<0>>, Absent, Absent, <<>>),
     Page(<<1>>, Absent, Absent, <<>>),
     Page(<<1>>, [base |-> b, seg |-> "page", num |-> 2, rest |-> <<>>], Absent, <<>>)}

InitRun ==
    /\ pc = "start"
    /\ attempt = 0
    /\ response = "None"
    /\ dates_list = <<>>
    /\ idx = 0
    /\ current_url = None
    /\ next_url = None
    /\ visited = {}
    /\ page_num = 0
    /\ all_rows = <<>>
    /\ page = NoPage
    /\ tries = 0
    /\ delays = <<>>
    /\ calls = 0
    /\ polite = FALSE
    /\ gap_ok = TRUE
    /\ walk_log = <<>>
    /\ started = {}
    /\ failed = {}
    /\ rows_at_fail = <<>>
    /\ offered = {}
    /\ fetched = FALSE
    /\ NoRewrite
    /\ environ \in {{"GOOGLE_CREDS_JSON", "SCRAPERAPI_KEY"}, {"GOOGLE_CREDS_JSON"},
                    {"SCRAPERAPI_KEY"}}
    /\ start_date_raw \in RunDates
    /\ end_date_raw = [form |-> "slash", a |-> 1, b |-> 31, c |-> 2024]
    /\ start_date_obj = NoDate
    /\ end_date_obj = NoDate
    /\ listing = <<>>
    /\ master \in {NoSheet, Sheet(<<Header, OldRow>>)}
    /\ snapshot \in {NoSheet, Sheet(<<Header, OldRow>>)}
    /\ snapshot.found => master.found
    /\ start_row = 0
    /\ other_appended = FALSE
    /\ wrote = {}

ListingRun == \E l \in RunListings : ListingRead(l)

PageRun == \E p \in RunPages(current_url.base) : LoopBody(p)

NextRun ==
    \/ Setup
    \/ ParseDates
    \/ CheckKey
    \/ Attempt
    \/ ListingFailed
    \/ ListingRun
    \/ LoopHead
    \/ WhileExit
    \/ PageFailed
    \/ PageRun
    \/ ReadMaster
    \/ WriteMaster
    \/ AddTab
    \/ TabHeader
    \/ TabRows
    \/ OtherAppend

SpecRun == InitRun /\ [][NextRun]_vars

----------------------------------------------------------------------------
(* Properties *)

IsPrefix(a, b) == Len(a) <= Len(b) /\ SubSeq(b, 1, Len(a)) = a

InFetch == pc \in {"fetch_listing", "fetch_page"}

HasReturned == pc \in {"listing_got", "page_got"}

\* C1: within one walk, the URL chosen as the next current URL is not in
\* visited (so it differs from the URL just fetched, which is in visited),
\* and no URL is fetched twice in the walk.
C1_LoopPrevention ==
    /\ (pc = "walk" /\ current_url # None) => current_url \notin visited
    /\ (pc = "walk" /\ current_url # None /\ walk_log # <<>>)
          => current_url # walk_log[Len(walk_log)]
    /\ \A i, j \in 1..Len(walk_log) : i < j => walk_log[i] # walk_log[j]
    /\ {walk_log[i] : i \in 1..Len(walk_log)} = visited

\* a page of the second fetch of a walk pointed back into visited and the
\* candidate was rejected
C1_Witness ==
    /\ pc = "walk"
    /\ Len(walk_log) >= 2
    /\ next_url # None
    /\ next_url \in visited
    /\ current_url = None

\* C2 (as claimed): the walk of one index fetches at most as many pages as
\* there are distinct URLs reachable: the index URL and the URLs the pages
\* of the walk link to.
C2_FetchesBoundedByReachable ==
    idx >= 1 =>
        Len(walk_log) <= Cardinality({DateURL(dates_list[idx])} \cup offered)

\* C3: a fetch failure ends only the walk of its index: the rows emitted
\* before it stay, as they were, at the front of the output, the crawl is
\* over only after the last target, and when the crawl is over the first
\* page of every target has been fetched.
C3_FailureIsLocal ==
    /\ failed # {} => IsPrefix(rows_at_fail, all_rows)
    /\ \A t \in failed : t < idx \/ pc = "done"
    /\ pc = "done" => idx = Len(dates_list)
    /\ pc = "done" => started = 1..Len(dates_list)

\* the second page of the first target failed after its first page had
\* emitted rows, and the second target was walked to the end
C3_Witness ==
    /\ pc = "done"
    /\ 1 \in failed
    /\ rows_at_fail # <<>>
    /\ 2 \in started
    /\ Len(all_rows) > Len(rows_at_fail)

\* C4: a page with no row element ends the walk: no row is emitted, no
\* next URL is resolved or selected, whatever links the page carries.
C4_EmptyPageIsTerminal ==
    (pc # "page_got" /\ page.rows = <<>>)
        => /\ pc = "done"
           /\ all_rows = <<>>
           /\ next_url = None
           /\ current_url = walk_log[1]

\* an empty page with a rel=next link, a right arrow and a numeric link
C4_Witness ==
    /\ pc = "done"
    /\ page.rows = <<>>
    /\ HasHref(page.relNext)
    /\ HasHref(page.right)
    /\ page.links # <<>>

\* where a row of the output comes from: target, page of the walk, row
RowOrigin(row) == <<row[2][1], row[2][2], row[2][3]>>

Before(a, b) ==
    \/ a[1] < b[1]
    \/ a[1] = b[1] /\ a[2] < b[2]
    \/ a[1] = b[1] /\ a[2] = b[2] /\ a[3] < b[3]

InDiscoveryOrder(rows, dl) ==
    /\ \A i, j \in 1..Len(rows) : i < j => Before(RowOrigin(rows[i]), RowOrigin(rows[j]))
    /\ \A i \in 1..Len(rows) : rows[i][1] = dl[rows[i][2][1]]

\* C5: every step only appends to the output, and the output is in
\* discovery order: target order, then page order, then row order; each
\* row carries the label of its target.
C5_AppendOnlyInOrder ==
    [][IsPrefix(all_rows, all_rows') /\ InDiscoveryOrder(all_rows', dates_list')]_vars

\* rows of two targets, of two pages of one target and two rows of one page
C5_Witness ==
    /\ \E i, j \in 1..Len(all_rows) : RowOrigin(all_rows[i])[1] # RowOrigin(all_rows[j])[1]
    /\ \E i, j \in 1..Len(all_rows) :
          /\ RowOrigin(all_rows[i])[1] = RowOrigin(all_rows[j])[1]
          /\ RowOrigin(all_rows[i])[2] # RowOrigin(all_rows[j])[2]
    /\ \E i, j \in 1..Len(all_rows) :
          /\ RowOrigin(all_rows[i])[1] = RowOrigin(all_rows[j])[1]
          /\ RowOrigin(all_rows[i])[2] = RowOrigin(all_rows[j])[2]
          /\ RowOrigin(all_rows[i])[3] # RowOrigin(all_rows[j])[3]

\* C6: fetch_url returns None after exactly Retries attempts, all failed,
\* and returns the response of the first attempt that succeeds, attempt k,
\* after exactly k attempts; while it runs, every attempt made so far failed.
C6_AttemptsCounted ==
    /\ InFetch => tries = attempt /\ attempt < Retries
    /\ HasReturned => response \in {"ok", "None"}
    /\ (HasReturned /\ response = "None") => tries = Retries
    /\ (HasReturned /\ response = "ok") => tries = attempt + 1 /\ tries <= Retries

\* a page fetch gave up after Retries failed attempts
C6_Witness ==
    /\ pc = "page_got"
    /\ response = "None"
    /\ tries = Retries

\* C7: the k-th sleep of a fetch_url call lasts BackoffBase^(k-1); there is
\* one sleep after every failed attempt that is followed by another attempt,
\* and none after the last attempt, failed or not.
C7_Backoff ==
    /\ \A k \in 1..Len(delays) : delays[k] = BackoffBase ^ (k - 1)
    /\ \A k \in 1..Len(delays) - 1 : delays[k] <= delays[k + 1]
    /\ InFetch => Len(delays) = tries
    /\ HasReturned => Len(delays) = tries - 1

\* a fetch that failed Retries times slept 1, then 2, and not after the last
C7_Witness ==
    /\ pc = "page_got"
    /\ response = "None"
    /\ delays = <<1, 2>>

\* the 1-based source positions of the column projection
ColumnProjection == <<1, 2, 6, 9, 13, 15>>

\* C8 (as claimed): a row element with at least FullRowCells cells yields
\* exactly Len(ColumnProjection) values, the cells at the positions of
\* ColumnProjection in that order.
C8_ProjectedColumns ==
    \A i \in 1..Len(all_rows) :
        LET row == all_rows[i]
        IN  page.rows[row[2][3]] >= FullRowCells
                => /\ Len(row) - 1 = Len(ColumnProjection)
                   /\ \A k \in 1..Len(ColumnProjection) :
                         k + 1 <= Len(row) /\ row[k + 1][4] = ColumnProjection[k]

\* C9 (as claimed): every fetch_url call but the first of the run starts
\* after a politeness sleep that followed the call before it.
C9_WaitBetweenFetches == gap_ok

\* the URL the loop body ran on, and its page number, as the claim reads it
C10_Fetched == walk_log[1]

C10_PageNo == IF C10_Fetched.seg \in {"page", "seite"} THEN C10_Fetched.num ELSE 1

C10_Synth ==
    [base |-> C10_Fetched.base, seg |-> "page", num |-> C10_PageNo + 1, rest |-> <<>>]

C10_Numbered == {k \in 1..Len(page.links) : page.links[k].seg \in {"page", "seite"}}

C10_Adjacent == {k \in C10_Numbered : page.links[k].num = C10_PageNo + 1}

C10_Larger == {k \in C10_Numbered : page.links[k].num > C10_PageNo}

\* C10: the candidate is the one of the first strategy that gives one, in
\* the order rel=next, right arrow, numeric adjacency, numeric
\* extrapolation, heuristic continuation; else there is none.
C10_FirstMatchWins ==
    (pc = "walk" /\ page.rows # <<>>) =>
        IF HasHref(page.relNext) THEN next_url = page.relNext
        ELSE IF HasHref(page.right) THEN next_url = page.right
        ELSE IF C10_Adjacent # {}
             THEN \E k \in C10_Adjacent :
                     /\ \A j \in C10_Adjacent : k <= j
                     /\ next_url = page.links[k]
        ELSE IF C10_Larger # {} THEN next_url = C10_Synth
        ELSE IF Len(page.rows) >= PAGE_SIZE_HINT THEN next_url = C10_Synth
        ELSE next_url = None

\* a full page with a rel=next link, a different right arrow and an
\* adjacent numeric link different from both: rel=next was taken
C10_Witness ==
    /\ pc = "walk"
    /\ Len(page.rows) >= PAGE_SIZE_HINT
    /\ HasHref(page.relNext)
    /\ HasHref(page.right)
    /\ page.right # page.relNext
    /\ C10_Adjacent # {}
    /\ \A k \in C10_Adjacent : page.links[k] \notin {page.relNext, page.right}
    /\ next_url = page.relNext

\* a link the loop guard lets through: it has an href and its URL has not
\* been fetched in this walk
C11_Live(e) == HasHref(e) /\ e \notin visited

C11_LiveNumbered ==
    {k \in C10_Numbered : page.links[k] \notin visited}

C11_LiveAdjacent == C11_LiveNumbered \cap C10_Adjacent

C11_LiveLarger == C11_LiveNumbered \cap C10_Larger

\* the decision of the resolver on the page without its rejected links
C11_WithoutRejected ==
    IF C11_Live(page.relNext) THEN page.relNext
    ELSE IF C11_Live(page.right) THEN page.right
    ELSE IF C11_LiveAdjacent # {}
         THEN page.links[CHOOSE k \in C11_LiveAdjacent :
                            \A j \in C11_LiveAdjacent : k <= j]
    ELSE IF /\ C11_LiveLarger # {} \/ Len(page.rows) >= PAGE_SIZE_HINT
            /\ C10_Synth \notin visited
         THEN C10_Synth
    ELSE None

\* C11 (as claimed): a candidate that is the current URL or was visited
\* counts as absent, so the walk goes on to what the resolver gives on the
\* page without that link, an unvisited candidate of a later strategy
\* included.
C11_RejectedIsAbsent ==
    (pc = "walk" /\ page.rows # <<>>) => current_url = C11_WithoutRejected

\* C12 (as claimed): the heuristic gives the current URL rewritten to the
\* next page number exactly on a full page without usable pagination
\* markup; a short page without markup ends the walk, and so does a full
\* page whose numbered links show no page number above the current one.
C12_HeuristicContinuation ==
    (pc = "walk" /\ page.rows # <<>>
        /\ ~HasHref(page.relNext) /\ ~HasHref(page.right)) =>
        /\ (C10_Numbered = {} /\ Len(page.rows) >= PAGE_SIZE_HINT)
               => next_url = C10_Synth
        /\ (C10_Numbered = {} /\ Len(page.rows) < PAGE_SIZE_HINT)
               => (next_url = None /\ current_url = None)
        /\ (C10_Numbered # {} /\ C10_Larger = {}
                /\ Len(page.rows) >= PAGE_SIZE_HINT)
               => (next_url = None /\ current_url = None)

\* the row elements of the page that the output has a row of
C16_Emitted == {all_rows[i][2][3] : i \in 1..Len(all_rows)}

\* the row elements of the page with at least one retained cell
C16_Retaining == {r \in 1..Len(page.rows) : KeptColumns(page.rows[r]) # <<>>}

\* C16: every row of the output is the label of its target followed by at
\* least one cell value, and a row element without a retained cell adds
\* no row: the output has one row for each row element that retains a
\* cell and none for the others.
C16_RowsNonEmptyLabelled ==
    /\ \A i \in 1..Len(all_rows) :
          /\ Len(all_rows[i]) >= 2
          /\ all_rows[i][1] = dates_list[idx]
          /\ \A c \in 2..Len(all_rows[i]) : all_rows[i][c][1] = idx
    /\ pc = "walk" =>
          /\ C16_Emitted = C16_Retaining
          /\ Len(all_rows) = Cardinality(C16_Retaining)

\* a page with a cell-less row element and a row element with cells has
\* been extracted: one row came out
C16_Witness ==
    /\ pc = "walk"
    /\ \E r \in 1..Len(page.rows) : page.rows[r] = 0
    /\ \E r \in 1..Len(page.rows) : page.rows[r] > 0
    /\ all_rows # <<>>
    /\ Len(all_rows) < Len(page.rows)

\* the URL has a /page/N or /seite/N segment somewhere
C18_HasSegment(u) == u.seg \in {"page", "seite"} \/ u.rest # <<>>

\* C18: the page number read back from a rewritten URL is the number it
\* was rewritten to, whether the URL had page segments or not; a URL
\* without a page segment has page number 1; a URL rewritten to the page
\* after its own has that page number and is not the URL it was built from.
C18_RewriteRoundTrip ==
    /\ (pc # "url" /\ ~C18_HasSegment(current_url)) => current_n = 1
    /\ pc = "read_back" => built_n = next_num
    /\ (pc = "read_back" /\ next_num = current_n + 1) =>
          /\ built_n = current_n + 1
          /\ next_url # current_url

\* a URL with a /seite/ segment followed by another page segment was
\* rewritten to the page after its own and read back
C18_Witness ==
    /\ pc = "read_back"
    /\ current_url.seg = "seite"
    /\ current_url.rest # <<>>
    /\ next_num = current_n + 1
    /\ built_n = next_num

\* a date as one number, ordered as the calendar
C14_Ord(d) == d.y * 10000 + d.m * 100 + d.d

\* the date a month/day/year string states
C14_Given(s) == [y |-> s.c, m |-> s.a, d |-> s.b]

\* the date a listing link states
C14_DateOfRow(row) == [y |-> row.yyyy, m |-> row.mm, d |-> row.dd]

\* the date embedded in a target's label DDMMYYYY
C14_DateOfLabel(t) ==
    [y |-> t % 10000, m |-> (t \div 10000) % 100, d |-> t \div 1000000]

\* the listing row carries a date of the normalized range, bounds included
C14_Within(row) ==
    /\ row.kind = "date"
    /\ C14_Ord(start_date_obj) <= C14_Ord(C14_DateOfRow(row))
    /\ C14_Ord(C14_DateOfRow(row)) <= C14_Ord(end_date_obj)

\* C14: once the two dates are parsed, start <= end and the two are the
\* dates supplied, in whichever order they were supplied; the index targets
\* are the listing links whose date d has start <= d <= end, in listing
\* order, so no link with a date outside the range is a target and a link
\* dated start or end is one.
C14_RangeAndFilter ==
    /\ pc \notin {"parse_dates", "raised_date", "raised_type_error"} =>
          /\ C14_Ord(start_date_obj) <= C14_Ord(end_date_obj)
          /\ {start_date_obj, end_date_obj}
                = {C14_Given(start_date_raw), C14_Given(end_date_raw)}
    /\ pc \in {"walk", "raised"} =>
          /\ Len(dates_list) = Len(SelectSeq(listing, C14_Within))
          /\ \A i \in 1..Len(dates_list) :
                C14_DateOfLabel(dates_list[i])
                    = C14_DateOfRow(SelectSeq(listing, C14_Within)[i])

\* the later date came first, and of two listing links the one dated as
\* the earlier bound became the only target
C14_Witness ==
    /\ pc = "walk"
    /\ C14_Ord(C14_Given(start_date_raw)) > C14_Ord(C14_Given(end_date_raw))
    /\ Len(listing) = 2
    /\ listing[1].kind = "date"
    /\ listing[2].kind = "date"
    /\ Len(dates_list) = 1
    /\ C14_DateOfLabel(dates_list[1]) = C14_DateOfRow(listing[2])
    /\ C14_Given(end_date_raw) = C14_DateOfRow(listing[2])

\* C15 (as claimed): whatever the listing page holds, the run does not
\* raise on reading it; a link text that matches the date pattern and is
\* no calendar date only fails to become a target.
C15_ContentNeverRaises == pc # "raised_value_error"

C17_MonthLength(m, y) ==
    <<31, IF y % 4 = 0 /\ (y % 100 # 0 \/ y % 400 = 0) THEN 29 ELSE 28,
      31, 30, 31, 30, 31, 31, 30, 31, 30, 31>>[m]

C17_IsDate(y, m, d) ==
    /\ y \in 1..9999
    /\ m \in 1..12
    /\ d >= 1
    /\ d <= C17_MonthLength(m, y)

C17_MonthDayYear(s) == s.form = "slash" /\ C17_IsDate(s.c, s.a, s.b)

C17_DayMonthYear(s) == s.form = "slash" /\ C17_IsDate(s.c, s.b, s.a)

C17_ISO(s) == s.form = "dash" /\ C17_IsDate(s.a, s.b, s.c)

C17_BothAre(F(_)) == F(start_date_raw) /\ F(end_date_raw)

C17_AnyFormat(s) == C17_MonthDayYear(s) \/ C17_DayMonthYear(s) \/ C17_ISO(s)

C17_Strings == EmptyCell \notin {start_date_raw, end_date_raw}

C13_CrawlOrSink ==
    pc \in {"walk", "fetch_page", "page_got", "done", "append", "new_tab",
            "tab_header", "tab_rows", "returned200", "raised_api_error"}

\* C13 (as claimed): the invalid-date failure comes before any HTTP
\* fetch; the no-target failure comes before any index page fetch and
\* before any row is written to the Master sheet or to a snapshot tab.
C13_FatalBeforeAnyWrite ==
    /\ pc = "raised_date" => ~fetched
    /\ pc = "raised" => (calls = 0 /\ started = {} /\ wrote = {})

\* C13 (amended): the invalid-date failure comes before any HTTP fetch;
\* the no-target failure comes before any index page fetch, before any
\* crawled row is written to Master and before the snapshot tab is made,
\* so the only sheet write before it is the header row of a Master sheet
\* that did not exist; the crawl and steps 3 and 4 run only with a target.
C13_FatalBeforeCrawl ==
    /\ pc = "raised_date" => (~fetched /\ calls = 0)
    /\ pc = "raised" =>
          /\ calls = 0
          /\ started = {}
          /\ all_rows = <<>>
          /\ wrote \subseteq {"master_header"}
    /\ C13_CrawlOrSink => dates_list # <<>>
    /\ wrote \ {"master_header"} # {} => dates_list # <<>>

\* the listing was fetched and had links, none in the range: the run
\* raised after it had made the Master sheet and written its header
C13_Witness ==
    /\ pc = "raised"
    /\ fetched
    /\ listing # <<>>
    /\ wrote = {"master_header"}
    /\ master.rows = <<Header>>

\* C19 (as claimed): a row that another invocation appended to Master is
\* never overwritten by this run's append, however the two interleave.
C19_AppendNeverOverwrites ==
    other_appended => \E i \in 1..Len(master.rows) : master.rows[i] = OtherRow

\* C20 (as claimed): a run with at least one target whose walks gave no
\* row ends by returning 200, has written nothing to Master, and leaves
\* a snapshot tab that holds the header row and then the placeholder row.
C20_EmptyResultIsResult ==
    (pc \in {"returned200", "raised_api_error"}
        /\ dates_list # <<>> /\ all_rows = <<>>) =>
        /\ pc = "returned200"
        /\ "master_rows" \notin wrote
        /\ snapshot = Sheet(<<Header, Placeholder>>)

====
